---- MODULE Spec2Model ----
(***************************************************************************)
(* duration-string: src/duration/mod.rs.                                   *)
(*                                                                         *)
(* A Duration is built from a usize count of seconds by a div/mod cascade  *)
(* (years, days, hours, minutes, seconds), enumerated (iter_units),        *)
(* rendered (Display) and converted back to seconds (RawSeconds::from).    *)
(*                                                                         *)
(* usize values are wider than the integers TLC computes with, so a    *)
(* usize is a little-endian vector of NDigits digits in base 2^6; the      *)
(* vector is long enough to hold the exact result of any single            *)
(* multiplication or addition of the code, and Wrap cuts it to the width   *)
(* of usize.  The width is 32 or 64 bits (the literal 60*60*24*365 does    *)
(* not fit a 16-bit usize, so the crate does not build there).             *)
(***************************************************************************)
EXTENDS Integers, Sequences, FiniteSets, TLC

VARIABLES
    bits,   \* width of usize on the target
    overflow_checks, \* whether the build has overflow checks
    ctor,   \* how d was made: "new" (Duration::new) or "literal" (pub fields)
    rs,     \* the argument of Duration::new
    pc,     \* "arg": Duration::new not yet called; "built": d exists
    d,      \* the Duration
    done,   \* the operations applied so far
    units,  \* result of the last d.iter_units(), collected
    text,   \* result of the last format!("{}", ...)
    raw,    \* result of the last RawSeconds::from(d)
    back,   \* result of Duration::new(*raw)
    a,      \* a TimeUnit (left operand of ==, subject of Display)
    b,      \* a TimeUnit (right operand of ==)
    eq      \* result of the last a == b

vars == <<bits, overflow_checks, ctor, rs, pc, d, done, units, text, raw, back, a, b, eq>>

----------------------------------------------------------------------------
(* usize arithmetic on digit vectors *)

Base == 2^6

NDigits == 13

Digits == 1..NDigits

\* the usize (or exact intermediate) with value n, for 0 <= n < 2^31
Nat2U(n) == [i \in Digits |-> IF i <= 6 THEN (n \div Base^(i-1)) % Base ELSE 0]

Zero == Nat2U(0)

\* the value of a vector that is below 2^30
U2Nat(x) == x[1] + Base * (x[2] + Base * (x[3] + Base * (x[4] + Base * x[5])))

RECURSIVE leq_from(_, _, _)
leq_from(x, y, i) ==
    IF i = 0 THEN TRUE
    ELSE IF x[i] # y[i] THEN x[i] < y[i]
    ELSE leq_from(x, y, i - 1)

\* x <= y: compared from the most significant digit
ULeq(x, y) == leq_from(x, y, NDigits)

\* long division from digit i down, r the remainder so far: the quotient's
\* digits, most significant first, then the remainder
RECURSIVE div_from(_, _, _, _)
div_from(x, k, i, r) ==
    IF i = 0 THEN <<r>>
    ELSE <<(r * Base + x[i]) \div k>>
            \o div_from(x, k, i - 1, (r * Base + x[i]) % k)

\* x / k and x % k for a divisor 0 < k <= 60*60*24*365
UDivRem(x, k) ==
    LET res == div_from(x, k, NDigits, 0)
    IN  [q |-> [i \in Digits |-> res[NDigits + 1 - i]], r |-> res[NDigits + 1]]

UDiv(x, k) == UDivRem(x, k).q

URem(x, k) == Nat2U(UDivRem(x, k).r)

RECURSIVE mul_from(_, _, _, _)
mul_from(x, k, i, carry) ==
    IF i > NDigits THEN <<>>
    ELSE <<(x[i] * k + carry) % Base>>
            \o mul_from(x, k, i + 1, (x[i] * k + carry) \div Base)

\* the exact product x * k, 0 <= k <= 60*60*24*365
UMulExact(x, k) == mul_from(x, k, 1, 0)

RECURSIVE add_from(_, _, _, _)
add_from(x, y, i, carry) ==
    IF i > NDigits THEN <<>>
    ELSE <<(x[i] + y[i] + carry) % Base>>
            \o add_from(x, y, i + 1, (x[i] + y[i] + carry) \div Base)

\* the exact sum x + y
UAddExact(x, y) == add_from(x, y, 1, 0)

\* x mod 2^w
Wrap(x, w) ==
    [i \in Digits |->
        IF 6 * i <= w THEN x[i]
        ELSE IF 6 * (i - 1) >= w THEN 0
        ELSE x[i] % 2^(w - 6 * (i - 1))]

\* usize::MAX
UMax(w) == Wrap([i \in Digits |-> Base - 1], w)

\* widths of usize the crate builds for
UsizeBits == {32, 64}

----------------------------------------------------------------------------
(* TimeUnitKind, TimeUnit *)

TimeUnitKind == {"Seconds", "Minutes", "Hours", "Days", "Years"}

\* #[derive(PartialEq)] on the enum: same variant
TimeUnitKind_eq(k1, k2) == k1 = k2

TimeUnit_new(kind, amount) == [kind |-> kind, amount |-> amount]

\* #[derive(PartialEq)] on the struct: every field equal
TimeUnit_eq_amount_only(t1, t2) == t1.amount = t2.amount

TimeUnit_eq(t1, t2) == TimeUnitKind_eq(t1.kind, t2.kind) /\ t1.amount = t2.amount

DigitChar(n) == <<"0", "1", "2", "3", "4", "5", "6", "7", "8", "9">>[n + 1]

\* usize::to_string: the decimal numeral, no leading zeros.  The digits are
\* taken from three chunks of seven decimal digits (a usize is below 10^21).
to_string(n) ==
    LET lo     == UDivRem(n, 10000000)
        mid    == UDivRem(lo.q, 10000000)
        chunks == <<lo.r, mid.r, U2Nat(mid.q)>>
        digit(i) == (chunks[(i \div 7) + 1] \div 10^(i % 7)) % 10
        nz     == { i \in 0..20 : digit(i) # 0 }
        top    == IF nz = {} THEN 0 ELSE CHOOSE i \in nz : \A j \in nz : j <= i
    IN  [j \in 1..(top + 1) |-> DigitChar(digit(top + 1 - j))]

KindNoun(kind) ==
    CASE kind = "Years"   -> <<" ", "y", "e", "a", "r">>
      [] kind = "Days"    -> <<" ", "d", "a", "y">>
      [] kind = "Hours"   -> <<" ", "h", "o", "u", "r">>
      [] kind = "Minutes" -> <<" ", "m", "i", "n", "u", "t", "e">>
      [] kind = "Seconds" -> <<" ", "s", "e", "c", "o", "n", "d">>

TimeUnit_fmt_plural_unless_one(t) ==
    to_string(t.amount) \o KindNoun(t.kind)
        \o (IF t.amount # Nat2U(1) THEN <<"s">> ELSE <<>>)

\* fmt::Display for TimeUnit
TimeUnit_fmt(t) ==
    LET s1 == to_string(t.amount)
        s2 == s1 \o KindNoun(t.kind)
    IN  IF ~ULeq(t.amount, Nat2U(1)) THEN s2 \o <<"s">> ELSE s2

----------------------------------------------------------------------------
(* RawSeconds *)

\* a RawSeconds being computed: val is the usize the code holds, overflow
\* says that an operation exceeded usize::MAX (its exact result is not the
\* one cut to the width), exact lists the exact result
\* of every multiplication and addition performed.  With overflow checks
\* (a debug build) the first overflow panics and nothing more is computed;
\* without them val wraps and the computation goes on.
RawZero == [val |-> Zero, overflow |-> FALSE, exact |-> <<>>]

\* acc.val * k
checked_mul(acc, k, w) ==
    LET p == UMulExact(acc.val, k)
        v == Wrap(p, w)
    IN  [val      |-> v,
         overflow |-> acc.overflow \/ v # p,
         exact    |-> Append(acc.exact, p)]

\* acc.val * factors[1] * factors[2] * ..., left to right
RECURSIVE mul_chain(_, _, _, _)
mul_chain(acc, factors, w, checks) ==
    IF factors = <<>> THEN acc
    ELSE IF acc.overflow /\ checks THEN acc
    ELSE mul_chain(checked_mul(acc, Head(factors), w), Tail(factors), w, checks)

KindFactors_year_366(kind) ==
    CASE kind = "Seconds" -> <<>>
      [] kind = "Minutes" -> <<60>>
      [] kind = "Hours"   -> <<60, 60>>
      [] kind = "Days"    -> <<60, 60, 24>>
      [] kind = "Years"   -> <<60, 60, 24, 366>>

KindFactors_days_as_years(kind) ==
    CASE kind = "Seconds" -> <<>>
      [] kind = "Minutes" -> <<60>>
      [] kind = "Hours"   -> <<60, 60>>
      [] kind = "Days"    -> <<60, 60, 24, 365>>
      [] kind = "Years"   -> <<60, 60, 24, 365>>

\* the multiplications of each match arm, left to right
KindFactors(kind) ==
    CASE kind = "Seconds" -> <<>>
      [] kind = "Minutes" -> <<60>>
      [] kind = "Hours"   -> <<60, 60>>
      [] kind = "Days"    -> <<60, 60, 24>>
      [] kind = "Years"   -> <<60, 60, 24, 365>>

\* From<&TimeUnit> for RawSeconds
RawSeconds_from_TimeUnit(t, w, checks) ==
    mul_chain([RawZero EXCEPT !.val = t.amount], KindFactors(t.kind), w, checks)

----------------------------------------------------------------------------
(* Duration *)

new_zeroed_minutes_as_seconds ==
    [seconds |-> TimeUnit_new("Seconds", Zero),
     minutes |-> TimeUnit_new("Seconds", Zero),
     hours   |-> TimeUnit_new("Hours", Zero),
     days    |-> TimeUnit_new("Days", Zero),
     years   |-> TimeUnit_new("Years", Zero)]

\* Duration::new_zeroed
new_zeroed ==
    [seconds |-> TimeUnit_new("Seconds", Zero),
     minutes |-> TimeUnit_new("Minutes", Zero),
     hours   |-> TimeUnit_new("Hours", Zero),
     days    |-> TimeUnit_new("Days", Zero),
     years   |-> TimeUnit_new("Years", Zero)]

RECURSIVE SelectSeq2(_, _)
SelectSeq2(s, keep) ==
    IF s = <<>> THEN <<>>
    ELSE IF keep[1] THEN <<Head(s)>> \o SelectSeq2(Tail(s), Tail(keep))
    ELSE SelectSeq2(Tail(s), Tail(keep))

iter_units_ascending(dur) ==
    LET v == <<dur.seconds, dur.minutes, dur.hours, dur.days, dur.years>>
    IN  SelectSeq2(v, [i \in 1..5 |-> v[i].amount # Zero])

\* Duration::iter_units, collected: the vec in the order written, filtered
iter_units(dur) ==
    LET v == <<dur.years, dur.days, dur.hours, dur.minutes, dur.seconds>>
    IN  SelectSeq2(v, [i \in 1..5 |-> ~ULeq(v[i].amount, Zero)])

\* From<RawSeconds> for Duration with the remainder of years dropped
Duration_from_no_carry(rs0) ==
    [new_zeroed EXCEPT
        !.years.amount   = UDiv(rs0, 60 * 60 * 24 * 365),
        !.days.amount    = UDiv(rs0, 60 * 60 * 24),
        !.hours.amount   = UDiv(URem(rs0, 60 * 60 * 24), 60 * 60),
        !.minutes.amount = UDiv(URem(rs0, 60 * 60), 60),
        !.seconds.amount = URem(rs0, 60)]

\* From<RawSeconds> for Duration with the remainder of days not taken
Duration_from_stale_days(rs0) ==
    LET rs1 == URem(rs0, 60 * 60 * 24 * 365)
        rs3 == URem(rs1, 60 * 60)
    IN  [new_zeroed EXCEPT
            !.years.amount   = UDiv(rs0, 60 * 60 * 24 * 365),
            !.days.amount    = UDiv(rs1, 60 * 60 * 24),
            !.hours.amount   = UDiv(rs1, 60 * 60),
            !.minutes.amount = UDiv(rs3, 60),
            !.seconds.amount = URem(rs3, 60)]

\* From<RawSeconds> for Duration
Duration_from(rs0) ==
    LET d0  == new_zeroed
        d1  == [d0 EXCEPT !.years.amount = UDiv(rs0, 60 * 60 * 24 * 365)]
        rs1 == URem(rs0, 60 * 60 * 24 * 365)
        d2  == [d1 EXCEPT !.days.amount = UDiv(rs1, 60 * 60 * 24)]
        rs2 == URem(rs1, 60 * 60 * 24)
        d3  == [d2 EXCEPT !.hours.amount = UDiv(rs2, 60 * 60)]
        rs3 == URem(rs2, 60 * 60)
        d4  == [d3 EXCEPT !.minutes.amount = UDiv(rs3, 60)]
        rs4 == URem(rs3, 60)
        d5  == [d4 EXCEPT !.seconds.amount = rs4]
    IN  d5

\* Duration::new
Duration_new(seconds) == Duration_from(seconds)

\* the closure of the fold, |acc, ref n| acc + n.0, applied to the mapped n
fold_step(acc, n, w, checks) ==
    IF n.overflow /\ checks
    THEN [acc EXCEPT !.overflow = TRUE, !.exact = acc.exact \o n.exact]
    ELSE LET p == UAddExact(acc.val, n.val)
             v == Wrap(p, w)
         IN  [val      |-> v,
              overflow |-> acc.overflow \/ n.overflow \/ v # p,
              exact    |-> acc.exact \o n.exact \o <<p>>]

\* iter_units().map(RawSeconds::from).fold(0, ...): each unit is mapped when
\* the fold reaches it
RECURSIVE fold_units(_, _, _, _)
fold_units(acc, us, w, checks) ==
    IF us = <<>> THEN acc
    ELSE IF acc.overflow /\ checks THEN acc
    ELSE fold_units(
            fold_step(acc, RawSeconds_from_TimeUnit(Head(us), w, checks), w, checks),
            Tail(us), w, checks)

\* From<Duration> for RawSeconds
RawSeconds_from_Duration(dur, w, checks) ==
    fold_units(RawZero, iter_units(dur), w, checks)

RECURSIVE push_each(_, _)
push_each(s, us) ==
    IF us = <<>> THEN s
    ELSE push_each(s \o TimeUnit_fmt(Head(us)) \o <<",", " ">>, Tail(us))

Duration_fmt_oxford(dur) ==
    LET all_units == iter_units(dur)
        n == Len(all_units)
    IN  IF n = 0 THEN <<>>
        ELSE IF n = 1 THEN TimeUnit_fmt(all_units[1]) \o <<".">>
        ELSE push_each(<<>>, SubSeq(all_units, 1, n - 1))
                \o <<"a", "n", "d", " ">>
                \o TimeUnit_fmt(all_units[n]) \o <<".">>

\* fmt::Display for Duration
Duration_fmt(dur) ==
    LET all_units == iter_units(dur)
        n == Len(all_units)
    IN  IF n = 0 THEN <<>>
        ELSE IF n = 1 THEN TimeUnit_fmt(all_units[1]) \o <<".">>
        ELSE IF n = 2 THEN
            TimeUnit_fmt(all_units[1]) \o <<" ", "a", "n", "d", " ">>
                \o TimeUnit_fmt(all_units[2]) \o <<".">>
        ELSE push_each(<<>>, SubSeq(all_units, 1, n - 2))
                \o TimeUnit_fmt(all_units[n - 1]) \o <<" ", "a", "n", "d", " ">>
                \o TimeUnit_fmt(all_units[n]) \o <<".">>

----------------------------------------------------------------------------
(* the values the operations are applied to *)

MaxYears == 2

MaxBelow == 3

SecondsPerYear == 60 * 60 * 24 * 365

\* seconds in y years, dd days, h hours, m minutes and s seconds
Composite(y, dd, h, m, s) == (((y * 365 + dd) * 24 + h) * 60 + m) * 60 + s

\* arguments of Duration::new on every target: around every carry of the
\* cascade, with every subset of the units non-zero
SmallInputs ==
    { Nat2U(Composite(y, dd, h, m, s)) :
        y \in 0..MaxYears, dd \in {0, 44, 364}, h \in {0, 1, 23},
        m \in {0, 59}, s \in {0, 1, 59} }

\* the largest multiple of a year's seconds that fits the width
TopYear(w) == UMulExact(UDiv(UMax(w), SecondsPerYear), 365 * 24 * 60 * 60)

\* arguments at the top of the range of the width
BigInputs(w) ==
    { [UMax(w) EXCEPT ![1] = Base - 1 - k] : k \in 0..MaxBelow }
        \cup { x \in { UAddExact(TopYear(w), Nat2U(j)) : j \in {0, 1, 60, 86400} } :
                 ULeq(x, UMax(w)) }
        \cup { UMax(32), Nat2U(2147483647) }

Inputs == [w \in UsizeBits |-> SmallInputs \cup BigInputs(w)]

Kinds5(ks, km, kh, kd, ky) ==
    [seconds |-> ks, minutes |-> km, hours |-> kh, days |-> kd, years |-> ky]

MatchingKinds == Kinds5("Seconds", "Minutes", "Hours", "Days", "Years")

\* other kinds a struct literal can give the five fields: seconds and
\* minutes exchanged, and all Years
OtherKinds ==
    { Kinds5("Minutes", "Seconds", "Hours", "Days", "Years"),
      Kinds5("Years", "Years", "Years", "Years", "Years") }

\* amounts of the five fields in a struct literal: within the carries, at
\* the carries, the most years that fit, and usize::MAX
LiteralAmounts(w) ==
    { Kinds5(Nat2U(s), Nat2U(m), Nat2U(h), Nat2U(dd), Nat2U(y)) :
        s \in {0, 59}, m \in {0, 59}, h \in {0, 23},
        dd \in {0, 364}, y \in {0, 1, MaxYears} }
        \cup { Kinds5(Nat2U(s), Nat2U(m), Nat2U(h), Nat2U(dd), Zero) :
                s \in {0, 60}, m \in {0, 60}, h \in {0, 24}, dd \in {0, 365} }
        \cup { Kinds5(Zero, Zero, Zero, Zero, UDiv(UMax(w), SecondsPerYear)),
               Kinds5(Zero, Zero, Zero, Nat2U(1), UMax(w)),
               Kinds5(UMax(w), Zero, Zero, Zero, Zero),
               Kinds5(UMax(w), Nat2U(1), Zero, Zero, Zero) }

\* amounts for the literals of other kinds: every subset non-zero
SubsetAmounts ==
    { Kinds5(Nat2U(s), Nat2U(m), Nat2U(h), Nat2U(dd), Nat2U(y)) :
        s \in {0, 2}, m \in {0, 2}, h \in {0, 2}, dd \in {0, 2}, y \in {0, 2} }

Literal(ks, am) ==
    [f \in {"seconds", "minutes", "hours", "days", "years"} |->
        TimeUnit_new(ks[f], am[f])]

Literals ==
    [w \in UsizeBits |->
        { Literal(MatchingKinds, am) : am \in LiteralAmounts(w) }
            \cup { Literal(ks, am) : ks \in OtherKinds, am \in SubsetAmounts }]

UnitAmounts(w) == { Nat2U(n) : n \in {0, 1, 2, 10, 59} } \cup { UMax(w) }

TimeUnits ==
    [w \in UsizeBits |-> { TimeUnit_new(k, n) : k \in TimeUnitKind, n \in UnitAmounts(w) }]

----------------------------------------------------------------------------
(* Duration: construction and the three read operations *)

NoUnit == TimeUnit_new("Seconds", Zero)

Init ==
    /\ bits \in UsizeBits
    /\ overflow_checks \in BOOLEAN
    /\ \/ /\ ctor = "new"
          /\ pc = "arg"
          /\ rs \in Inputs[bits]
          /\ d = new_zeroed
       \/ /\ ctor = "literal"
          /\ pc = "built"
          /\ rs = Zero
          /\ d \in Literals[bits]
    /\ done = {}
    /\ units = <<>>
    /\ text = <<>>
    /\ raw = RawZero
    /\ back = new_zeroed
    /\ a = NoUnit
    /\ b = NoUnit
    /\ eq = FALSE

\* let d = Duration::new(rs)
New ==
    /\ pc = "arg"
    /\ d' = Duration_new(rs)
    /\ pc' = "built"
    /\ UNCHANGED <<bits, overflow_checks, ctor, rs, done, units, text, raw, back, a, b, eq>>

IterUnits_draining ==
    /\ pc = "built"
    /\ units' = iter_units(d)
    /\ d' = [f \in DOMAIN d |-> [d[f] EXCEPT !.amount = Zero]]
    /\ done' = done \cup {"iter"}
    /\ UNCHANGED <<bits, overflow_checks, ctor, rs, pc, text, raw, back, a, b, eq>>

\* d.iter_units().collect()
IterUnits ==
    /\ pc = "built"
    /\ units' = iter_units(d)
    /\ done' = done \cup {"iter"}
    /\ UNCHANGED <<bits, overflow_checks, ctor, rs, pc, d, text, raw, back, a, b, eq>>

\* format!("{}", d)
Display ==
    /\ pc = "built"
    /\ text' = Duration_fmt(d)
    /\ done' = done \cup {"fmt"}
    /\ UNCHANGED <<bits, overflow_checks, ctor, rs, pc, d, units, raw, back, a, b, eq>>

\* RawSeconds::from(d); d is Copy, the caller keeps its own
IntoRawSeconds ==
    /\ pc = "built"
    /\ raw' = RawSeconds_from_Duration(d, bits, overflow_checks)
    /\ done' = done \cup {"raw"}
    /\ UNCHANGED <<bits, overflow_checks, ctor, rs, pc, d, units, text, back, a, b, eq>>

\* Duration::new(*RawSeconds::from(d)), unless the conversion panicked
NewFromRaw ==
    /\ "raw" \in done
    /\ ~(raw.overflow /\ overflow_checks)
    /\ back' = Duration_new(raw.val)
    /\ done' = done \cup {"back"}
    /\ UNCHANGED <<bits, overflow_checks, ctor, rs, pc, d, units, text, raw, a, b, eq>>

Next == New \/ IterUnits \/ Display \/ IntoRawSeconds \/ NewFromRaw

Spec == Init /\ [][Next]_vars

----------------------------------------------------------------------------
(* TimeUnit: Display and == *)

InitUnit ==
    /\ bits \in UsizeBits
    /\ overflow_checks \in BOOLEAN
    /\ ctor = "literal"
    /\ pc = "built"
    /\ rs = Zero
    /\ d = new_zeroed
    /\ done = {}
    /\ units = <<>>
    /\ text = <<>>
    /\ raw = RawZero
    /\ back = new_zeroed
    /\ a \in TimeUnits[bits]
    /\ b \in TimeUnits[bits]
    /\ eq = FALSE

\* format!("{}", a)
UnitDisplay ==
    /\ text' = TimeUnit_fmt(a)
    /\ done' = done \cup {"fmt"}
    /\ UNCHANGED <<bits, overflow_checks, ctor, rs, pc, d, units, raw, back, a, b, eq>>

\* a == b
UnitEq ==
    /\ eq' = TimeUnit_eq(a, b)
    /\ done' = done \cup {"eq"}
    /\ UNCHANGED <<bits, overflow_checks, ctor, rs, pc, d, units, text, raw, back, a, b>>

NextUnit == UnitDisplay \/ UnitEq

SpecUnit == InitUnit /\ [][NextUnit]_vars

----------------------------------------------------------------------------
(* vocabulary of the properties *)

FieldOrder == <<"years", "days", "hours", "minutes", "seconds">>

NonZero(dur, i) == dur[FieldOrder[i]].amount # Zero

\* how many of the first i fields (years first) are non-zero
Rank(dur, i) == Cardinality({ j \in 1..i : NonZero(dur, j) })

CountNonZero(dur) == Rank(dur, 5)

\* the i-th non-zero field, years first
NthNonZero(dur, i) ==
    dur[FieldOrder[CHOOSE j \in 1..5 : NonZero(dur, j) /\ Rank(dur, j) = i]]

HasMatchingKinds(dur) ==
    /\ dur.seconds.kind = "Seconds"
    /\ dur.minutes.kind = "Minutes"
    /\ dur.hours.kind = "Hours"
    /\ dur.days.kind = "Days"
    /\ dur.years.kind = "Years"

\* every field below the carry into the next coarser one
IsCanonical(dur) ==
    /\ ULeq(dur.seconds.amount, Nat2U(59))
    /\ ULeq(dur.minutes.amount, Nat2U(59))
    /\ ULeq(dur.hours.amount, Nat2U(23))
    /\ ULeq(dur.days.amount, Nat2U(364))

ULess(x, y) == ~ULeq(y, x)

Count(s, ch) == Cardinality({ i \in 1..Len(s) : s[i] = ch })

\* pat occurs in s at position i
OccursAt(s, pat, i) ==
    /\ i + Len(pat) - 1 <= Len(s)
    /\ \A j \in 1..Len(pat) : s[i + j - 1] = pat[j]

Occurrences(s, pat) == { i \in 1..Len(s) : OccursAt(s, pat, i) }

DigitChars == { DigitChar(n) : n \in 0..9 }

\* the number a decimal numeral of at most 21 digits denotes
FromDecimal(s) ==
    LET val(i) == IF i < Len(s)
                  THEN CHOOSE n \in 0..9 : DigitChar(n) = s[Len(s) - i]
                  ELSE 0
        chunk(c) == val(7 * c) + 10 * val(7 * c + 1) + 100 * val(7 * c + 2)
                        + 1000 * val(7 * c + 3) + 10000 * val(7 * c + 4)
                        + 100000 * val(7 * c + 5) + 1000000 * val(7 * c + 6)
    IN  UAddExact(UMulExact(UAddExact(UMulExact(Nat2U(chunk(2)), 10000000),
                                      Nat2U(chunk(1))), 10000000),
                  Nat2U(chunk(0)))

NounOf(kind) ==
    CASE kind = "Seconds" -> <<"s", "e", "c", "o", "n", "d">>
      [] kind = "Minutes" -> <<"m", "i", "n", "u", "t", "e">>
      [] kind = "Hours"   -> <<"h", "o", "u", "r">>
      [] kind = "Days"    -> <<"d", "a", "y">>
      [] kind = "Years"   -> <<"y", "e", "a", "r">>

Text_1_hour ==
    <<"1", " ", "h", "o", "u", "r", ".">>

Text_1_hour_59_minutes ==
    <<"1", " ", "h", "o", "u", "r", " ", "a", "n", "d", " ", "5", "9", " ",
      "m", "i", "n", "u", "t", "e", "s", ".">>

Text_1_hour_59_minutes_59_seconds ==
    <<"1", " ", "h", "o", "u", "r", ",", " ", "5", "9", " ", "m", "i", "n",
      "u", "t", "e", "s", " ", "a", "n", "d", " ", "5", "9", " ", "s", "e",
      "c", "o", "n", "d", "s", ".">>

Text_five_units ==
    <<"1", " ", "y", "e", "a", "r", ",", " ", "4", "4", " ", "d", "a", "y",
      "s", ",", " ", "1", " ", "h", "o", "u", "r", ",", " ", "5", "9", " ",
      "m", "i", "n", "u", "t", "e", "s", " ", "a", "n", "d", " ", "5", "9",
      " ", "s", "e", "c", "o", "n", "d", "s", ".">>

Text_0_second ==
    <<"0", " ", "s", "e", "c", "o", "n", "d">>

----------------------------------------------------------------------------
(* properties *)

FromNew(op) == ctor = "new" /\ pc = "built" /\ op \in done

\* C1: round-trip identity: RawSeconds::from(Duration::new(s)) is exactly s,
\* for every usize s.
C1_RoundTripIdentity == FromNew("raw") => raw.val = rs

C1_Witness ==
    /\ FromNew("raw")
    /\ rs = Nat2U(35344799)
    /\ raw.val = Nat2U(35344799)
    /\ Len(raw.exact) = 15

\* C2: canonical decomposition bounds: Duration::new(s) has seconds < 60,
\* minutes < 60, hours < 24, days < 365, and years = s div 31536000, that
\* is years * 31536000 <= s < (years + 1) * 31536000.
C2_CanonicalBounds ==
    (ctor = "new" /\ pc = "built") =>
        /\ ULess(d.seconds.amount, Nat2U(60))
        /\ ULess(d.minutes.amount, Nat2U(60))
        /\ ULess(d.hours.amount, Nat2U(24))
        /\ ULess(d.days.amount, Nat2U(365))
        /\ LET floor == UMulExact(d.years.amount, 31536000)
           IN  /\ ULeq(floor, rs)
               /\ ULess(rs, UAddExact(floor, Nat2U(31536000)))

C2_Witness ==
    /\ ctor = "new" /\ pc = "built"
    /\ bits = 64
    /\ rs = UMax(64)
    /\ ULess(Nat2U(2147483647), d.years.amount)
    /\ d.days.amount # Zero

\* C3: Duration::new(s) is the div/mod cascade: years = s div 31536000,
\* days = (s mod 31536000) div 86400, hours = (s mod 86400) div 3600,
\* minutes = (s mod 3600) div 60, seconds = s mod 60, each field with the
\* kind of its name; 3600 gives 1 hour and nothing else, 7199 gives 1 hour
\* 59 minutes 59 seconds.
C3_DivModCascade ==
    (ctor = "new" /\ pc = "built") =>
        /\ d.years = TimeUnit_new("Years", UDiv(rs, 31536000))
        /\ d.days = TimeUnit_new("Days", UDiv(URem(rs, 31536000), 86400))
        /\ d.hours = TimeUnit_new("Hours", UDiv(URem(rs, 86400), 3600))
        /\ d.minutes = TimeUnit_new("Minutes", UDiv(URem(rs, 3600), 60))
        /\ d.seconds = TimeUnit_new("Seconds", URem(rs, 60))
        /\ rs = Nat2U(3600) =>
              d = [new_zeroed EXCEPT !.hours.amount = Nat2U(1)]
        /\ rs = Nat2U(7199) =>
              d = [new_zeroed EXCEPT !.hours.amount = Nat2U(1),
                                     !.minutes.amount = Nat2U(59),
                                     !.seconds.amount = Nat2U(59)]

C3_Witness ==
    /\ ctor = "new" /\ pc = "built"
    /\ rs = Nat2U(7199)
    /\ d.hours = TimeUnit_new("Hours", Nat2U(1))
    /\ d.minutes = TimeUnit_new("Minutes", Nat2U(59))
    /\ d.seconds = TimeUnit_new("Seconds", Nat2U(59))

JoinSeparator(i, n) ==
    IF i = n THEN <<".">>
    ELSE IF i = n - 1 THEN <<" ", "a", "n", "d", " ">>
    ELSE <<",", " ">>

RECURSIVE JoinFrom(_, _)
JoinFrom(dur, i) ==
    IF i > CountNonZero(dur) THEN <<>>
    ELSE TimeUnit_fmt(NthNonZero(dur, i))
            \o JoinSeparator(i, CountNonZero(dur)) \o JoinFrom(dur, i + 1)

\* C4: render join rule: with n non-zero units in the order years, days,
\* hours, minutes, seconds, the text is empty for n = 0 and otherwise the
\* units' texts, the first n-2 each followed by ", ", the last two joined
\* by " and ", then "."; so it ends in its only period, has max(0, n-2)
\* commas each followed by exactly one space, has " and " exactly when
\* n >= 2, and never a comma directly before "and".
C4_RenderJoinRule ==
    (pc = "built" /\ "fmt" \in done) =>
        LET n == CountNonZero(d)
        IN  /\ text = JoinFrom(d, 1)
            /\ n = 0 => text = <<>>
            /\ n >= 1 => text[Len(text)] = "." /\ Count(text, ".") = 1
            /\ Count(text, ",") = (IF n >= 2 THEN n - 2 ELSE 0)
            /\ \A i \in 1..Len(text) :
                  text[i] = "," => text[i + 1] = " " /\ text[i + 2] # " "
            /\ (Occurrences(text, <<" ", "a", "n", "d", " ">>) # {}) <=> (n >= 2)
            /\ Occurrences(text, <<",", " ", "a", "n", "d">>) = {}
            /\ (ctor = "new" /\ rs = Zero) => text = <<>>
            /\ (ctor = "new" /\ rs = Nat2U(3600)) => text = Text_1_hour
            /\ (ctor = "new" /\ rs = Nat2U(7140)) => text = Text_1_hour_59_minutes
            /\ (ctor = "new" /\ rs = Nat2U(7199)) =>
                  text = Text_1_hour_59_minutes_59_seconds
            /\ (ctor = "new" /\ rs = Nat2U(35344799)) => text = Text_five_units

C4_Witness ==
    /\ FromNew("fmt")
    /\ rs = Nat2U(35344799)
    /\ text = Text_five_units

\* C5: pluralization threshold: a TimeUnit renders as its amount in
\* decimal, a space and the noun of its kind (second, minute, hour, day,
\* year), with "s" appended if and only if the amount is at least 2, and
\* nothing after it.
C5_PluralizationThreshold ==
    "fmt" \in done =>
        LET sp   == CHOOSE i \in 1..Len(text) : text[i] = " "
            num  == SubSeq(text, 1, sp - 1)
            word == SubSeq(text, sp + 1, Len(text))
        IN  /\ Count(text, " ") = 1
            /\ num # <<>>
            /\ \A i \in 1..Len(num) : num[i] \in DigitChars
            /\ Len(num) > 1 => num[1] # "0"
            /\ FromDecimal(num) = a.amount
            /\ word = NounOf(a.kind)
                        \o (IF ULeq(Nat2U(2), a.amount) THEN <<"s">> ELSE <<>>)

C5_Witness ==
    /\ "fmt" \in done
    /\ a = TimeUnit_new("Seconds", Zero)
    /\ text = Text_0_second

\* C6: enumeration order and filter: iter_units yields exactly the fields
\* whose amount is above zero, each once, in the order years, days, hours,
\* minutes, seconds, whatever subset is non-zero; nothing when all are zero.
C6_EnumerationOrder ==
    (pc = "built" /\ "iter" \in done) =>
        /\ Len(units) = CountNonZero(d)
        /\ \A i \in 1..5 : NonZero(d, i) => units[Rank(d, i)] = d[FieldOrder[i]]

C6_Witness ==
    /\ pc = "built" /\ "iter" \in done
    /\ ctor = "literal"
    /\ ~HasMatchingKinds(d)
    /\ d.days.amount = Zero /\ d.hours.amount = Zero /\ d.seconds.amount = Zero
    /\ Len(units) = 2
    /\ units = <<d.years, d.minutes>>

\* C7: TimeUnit equality is structural: a == b if and only if the kinds
\* are equal and the amounts are equal.
C7_StructuralEquality ==
    "eq" \in done => (eq <=> (a.kind = b.kind /\ a.amount = b.amount))

C7_Witness ==
    /\ "eq" \in done
    /\ a.kind # b.kind
    /\ a.amount = b.amount
    /\ eq = FALSE

\* C8: read-only, restartable operations: iter_units, Display and
\* RawSeconds::from, in any order and any number of times, leave every
\* field of the Duration as it was, and each gives again the result it gave
\* before.
C8_ReadOnlyRestartable ==
    [][/\ pc = "built" => d' = d
       /\ "iter" \in done => units' = units
       /\ "fmt" \in done => text' = text
       /\ "raw" \in done => raw' = raw]_vars

C8_Witness ==
    /\ FromNew("iter") /\ "fmt" \in done /\ "raw" \in done
    /\ rs = Nat2U(35344799)
    /\ Len(units) = 5
    /\ text = Text_five_units
    /\ raw.val = rs
    /\ d = Duration_new(rs)

\* C9: no overflow on the round-trip of a decomposed value: in
\* RawSeconds::from(Duration::new(s)) every product of the left-to-right
\* multiplications and every partial sum is at most s, so nothing exceeds
\* usize::MAX, up to s = usize::MAX.
C9_NoOverflow ==
    FromNew("raw") =>
        /\ ~raw.overflow
        /\ \A i \in 1..Len(raw.exact) : ULeq(raw.exact[i], rs)

C9_Witness ==
    /\ FromNew("raw")
    /\ rs = UMax(bits)
    /\ Len(raw.exact) = 15
    /\ ~raw.overflow

\* two different seconds counts never give the same Duration
DistinctInputsDistinctDurations ==
    \A w \in UsizeBits :
        Cardinality({ Duration_new(s) : s \in Inputs[w] }) = Cardinality(Inputs[w])

\* C10: Duration::new inverts RawSeconds::from on canonical Durations: when
\* the fields carry their own kinds, seconds <= 59, minutes <= 59,
\* hours <= 23, days <= 364 and the total fits usize,
\* Duration::new(RawSeconds::from(d)) equals d field for field; so two
\* different seconds counts never decompose to the same Duration.
C10_DecomposeInvertsRoundTrip ==
    /\ (/\ pc = "built" /\ "back" \in done
        /\ HasMatchingKinds(d) /\ IsCanonical(d) /\ ~raw.overflow) => back = d
    /\ DistinctInputsDistinctDurations

C10_Witness ==
    /\ ctor = "literal" /\ "back" \in done
    /\ HasMatchingKinds(d) /\ IsCanonical(d) /\ ~raw.overflow
    /\ \A i \in 1..5 : NonZero(d, i)
    /\ d.years.amount = Nat2U(MaxYears)
    /\ back = d

====
